---- MODULE Spec2Model ----
(***************************************************************************)
(* kestrel core response service: run(request, format, page, data)         *)
(* (src/kestrel/core/response.py).  A call strips the reserved key         *)
(* 'kestrel' from the data mapping, branches on format and renders the     *)
(* template page + '.html'.  The data mapping is a Python dict that is     *)
(* mutated in place; the default value of the data parameter is one dict   *)
(* object created when the function is defined.                            *)
(*                                                                         *)
(* Each statement of run is one action, so that calls can be interleaved   *)
(* at statement granularity (SpecConc); under Spec a call starts only when *)
(* no other call is in progress.                                           *)
(***************************************************************************)
EXTENDS Naturals, Sequences, FiniteSets, TLC

(* ------------------------------ bounds -------------------------------- *)

\* number of callers (threads) that may be inside run
NumProcs == 2
\* longest string the template renderer produces
MaxHtmlLen == 2

(* --------------------------- value domains ---------------------------- *)

Procs == 1..NumProcs

\* Python None, the default of the format parameter
PyNone == "None"
Formats == {"json", "html", "xml", PyNone}

\* an argument the caller leaves out
Omitted == "<omitted>"
DefaultPage == "page/home"
PageArgs == {Omitted, "page/about"}

\* the dict object bound to the data parameter at definition time
DefaultData == "<default>"
CallerMaps == {"m1"}
MapIds == {DefaultData} \cup CallerMaps
DataArgs == {Omitted} \cup CallerMaps

Kestrel == "kestrel"
Keys == {Kestrel, "title"}
ValuesOf(k) == IF k = Kestrel THEN {"html", "stale"} ELSE {"About"}

\* a dict: a function from the keys it holds to their values
EmptyMap == [k \in {} |-> "html"]
Mappings == UNION {{m \in [S -> {"html", "stale", "About"}] :
                        \A k \in S : m[k] \in ValuesOf(k)} : S \in SUBSET Keys}

\* characters of rendered output: a plain one, the two JSON escapes a
\* string needs, and a control character
Chars == {"n", "\"", "\\", "\n"}
RECURSIVE StringsUpTo(_)
StringsUpTo(n) ==
    IF n = 0 THEN {<<>>}
    ELSE LET shorter == StringsUpTo(n - 1)
         IN  shorter \cup {Append(s, c) : s \in {t \in shorter : Len(t) = n - 1}, c \in Chars}
HtmlOut == StringsUpTo(MaxHtmlLen)

(* ------------------------- the dict operations ------------------------ *)

\* the membership test answering no whatever the dict holds
HasKeyNever(m) == FALSE

\* the membership test answering yes whatever the dict holds
HasKeyAlways(m) == TRUE

\* data.has_key('kestrel')
HasKey(m) == Kestrel \in DOMAIN m

\* a deletion that leaves the key in place
DelKestrelKeep(m) == m

\* a deletion that empties the dict (data.clear())
DelKestrelClear(m) == EmptyMap

\* del data['kestrel'] (the key is present)
DelKestrel(m) == [k \in DOMAIN m \ {Kestrel} |-> m[k]]

\* a marker assignment that is left out
SetKestrelSkip(m) == m

\* data['kestrel'] = 'html'
SetKestrel(m) == [k \in DOMAIN m \cup {Kestrel} |-> IF k = Kestrel THEN "html" ELSE m[k]]

(* ----------------------------- the arguments -------------------------- *)

\* page = 'page/home' when the argument is omitted
PageOf(arg) == IF arg = Omitted THEN DefaultPage ELSE arg

\* data = {} : the one default dict when the argument is omitted
DataOf(arg) == IF arg = Omitted THEN DefaultData ELSE arg

\* the page used as the template name, without the suffix
TemplateNameNoSuffix(page) == page

\* page + '.html'
TemplateName(page) == page \o ".html"

\* a branch that treats every format but 'json' as 'html'
BranchPcHtmlElse(format) == IF format = "json" THEN "l16" ELSE "l21"

\* if format == 'json' ... elif format == 'html' ... else
BranchPc(format) ==
    IF format = "json" THEN "l16"
    ELSE IF format = "html" THEN "l21"
    ELSE "l25"

(* -------------------------- JSON serialisation ------------------------ *)

\* simplejson's escape of one character inside a string
EscapeChar(c) ==
    IF c = "\"" THEN <<"\\", "\"">>
    ELSE IF c = "\\" THEN <<"\\", "\\">>
    ELSE IF c = "\n" THEN <<"\\", "n">>
    ELSE <<c>>

RECURSIVE Escape(_)
Escape(s) == IF s = <<>> THEN <<>> ELSE EscapeChar(Head(s)) \o Escape(Tail(s))

DumpsString(s) == <<"\"">> \o Escape(s) \o <<"\"">>

HtmlKey == <<"h", "t", "m", "l">>

\* simplejson.dumps({'html' : html })
DumpsHtml(html) == <<"{">> \o DumpsString(HtmlKey) \o <<":", " ">> \o DumpsString(html) \o <<"}">>

(* ------------------------------ responses ----------------------------- *)

NoResult == [kind |-> "none", builder |-> "", template |-> "", ctx |-> EmptyMap,
             body |-> <<>>, mimetype |-> "", error |-> ""]

\* the content type the framework gives a response that names none
FrameworkContentType == "framework-default"

\* the JSON response sent as application/json
JsonResponseAsJson(t, ctx, html) ==
    [kind |-> "response", builder |-> "HttpResponse", template |-> t, ctx |-> ctx,
     body |-> DumpsHtml(html), mimetype |-> "application/json", error |-> ""]

\* HttpResponse(simplejson.dumps({'html' : html }), mimetype='text/plain')
JsonResponse(t, ctx, html) ==
    [kind |-> "response", builder |-> "HttpResponse", template |-> t, ctx |-> ctx,
     body |-> DumpsHtml(html), mimetype |-> "text/plain", error |-> ""]

\* render_to_response(page + '.html', data, context_instance = ...)
TemplatedResponse(t, ctx, html) ==
    [kind |-> "response", builder |-> "render_to_response", template |-> t, ctx |-> ctx,
     body |-> html, mimetype |-> FrameworkContentType, error |-> ""]

\* an exception caught inside run and answered with an empty page
PropagateAsEmptyPage(e) ==
    [kind |-> "response", builder |-> "HttpResponse", template |-> "", ctx |-> EmptyMap,
     body |-> <<>>, mimetype |-> FrameworkContentType, error |-> ""]

\* an exception raised inside run leaves run: nothing catches it
Propagate(e) ==
    [kind |-> "raise", builder |-> "", template |-> "", ctx |-> EmptyMap,
     body |-> <<>>, mimetype |-> "", error |-> e]

(* -------------------------------- state ------------------------------- *)

VARIABLES
    maps,        \* the dict objects: the default one and the callers'
    pc,          \* each caller's position in run
    frame,       \* each caller's call: arguments, locals, what it did
    overlapped,  \* whether the call ran while another used the same dict
    leaked       \* a call with format != 'html' rendered 'kestrel'

vars == <<maps, pc, frame, overlapped, leaked>>

IdleFrame ==
    [format |-> PyNone, page |-> DefaultPage, data |-> DefaultData,
     pageArg |-> Omitted, dataArg |-> Omitted, pre |-> EmptyMap,
     t |-> "", lookups |-> <<>>, ctx |-> EmptyMap, html |-> <<>>,
     renders |-> 0, raised |-> "", result |-> NoResult]

Active(p) == pc[p] \notin {"idle", "done"}

Init ==
    /\ maps = [d \in MapIds |-> EmptyMap]
    /\ pc = [p \in Procs |-> "idle"]
    /\ frame = [p \in Procs |-> IdleFrame]
    /\ overlapped = [p \in Procs |-> FALSE]
    /\ leaked = FALSE

(* ------------------------------- actions ------------------------------ *)

\* the caller builds the mapping it is going to pass
Populate(d, m) ==
    /\ \A p \in Procs : ~(Active(p) /\ frame[p].data = d)
    /\ maps[d] # m
    /\ maps' = [maps EXCEPT ![d] = m]
    /\ UNCHANGED <<pc, frame, overlapped, leaked>>

\* def run(request, format = None, page = 'page/home', data = {})
Call(p, format, pageArg, dataArg) ==
    /\ pc[p] = "idle"
    /\ LET d == DataOf(dataArg)
           others == {q \in Procs \ {p} : Active(q) /\ frame[q].data = d}
       IN  /\ frame' = [frame EXCEPT ![p] =
                   [IdleFrame EXCEPT !.format = format, !.page = PageOf(pageArg),
                                     !.data = d, !.pageArg = pageArg,
                                     !.dataArg = dataArg, !.pre = maps[d]]]
           /\ overlapped' = [q \in Procs |->
                   IF q = p THEN others # {}
                   ELSE IF q \in others THEN TRUE ELSE overlapped[q]]
    /\ pc' = [pc EXCEPT ![p] = "l11"]
    /\ UNCHANGED <<maps, leaked>>

\* a call that starts when no other call is in progress
SeqCall(p, format, pageArg, dataArg) ==
    /\ \A q \in Procs : pc[q] = "idle"
    /\ Call(p, format, pageArg, dataArg)

\* line 11: if data.has_key('kestrel'):
TestKey(p) ==
    /\ pc[p] = "l11"
    /\ pc' = [pc EXCEPT ![p] =
           IF HasKey(maps[frame[p].data]) THEN "l12" ELSE BranchPc(frame[p].format)]
    /\ UNCHANGED <<maps, frame, overlapped, leaked>>

\* line 12: del data['kestrel']  (KeyError when the key is gone)
DelKey(p) ==
    /\ pc[p] = "l12"
    /\ LET d == frame[p].data
       IN  IF Kestrel \in DOMAIN maps[d]
           THEN /\ maps' = [maps EXCEPT ![d] = DelKestrel(maps[d])]
                /\ pc' = [pc EXCEPT ![p] = BranchPc(frame[p].format)]
                /\ UNCHANGED frame
           ELSE /\ frame' = [frame EXCEPT ![p].raised = "KeyError",
                                          ![p].result = Propagate("KeyError")]
                /\ pc' = [pc EXCEPT ![p] = "done"]
                /\ UNCHANGED maps
    /\ UNCHANGED <<overlapped, leaked>>

\* line 16: t = get_template(page + '.html')
GetTemplate(p) ==
    /\ pc[p] = "l16"
    /\ LET name == TemplateName(frame[p].page)
       IN  \E found \in BOOLEAN :
             IF found
             THEN /\ frame' = [frame EXCEPT ![p].t = name,
                                            ![p].lookups = Append(@, name)]
                  /\ pc' = [pc EXCEPT ![p] = "l17"]
             ELSE /\ frame' = [frame EXCEPT ![p].lookups = Append(@, name),
                                            ![p].raised = "TemplateDoesNotExist",
                                            ![p].result = Propagate("TemplateDoesNotExist")]
                  /\ pc' = [pc EXCEPT ![p] = "done"]
    /\ UNCHANGED <<maps, overlapped, leaked>>

\* line 17: html = t.render(RequestContext(request, data))
Render(p, outs) ==
    /\ pc[p] = "l17"
    /\ LET ctx == maps[frame[p].data]
       IN  /\ \/ \E out \in outs :
                   /\ frame' = [frame EXCEPT ![p].ctx = ctx, ![p].html = out,
                                             ![p].renders = @ + 1]
                   /\ pc' = [pc EXCEPT ![p] = "l18"]
              \/ /\ frame' = [frame EXCEPT ![p].ctx = ctx, ![p].renders = @ + 1,
                                           ![p].raised = "RenderError",
                                           ![p].result = Propagate("RenderError")]
                 /\ pc' = [pc EXCEPT ![p] = "done"]
           /\ leaked' = (leaked \/ HasKey(ctx))
    /\ UNCHANGED <<maps, overlapped>>

\* line 18: return HttpResponse(simplejson.dumps({'html' : html }), mimetype='text/plain')
JsonRespond(p) ==
    /\ pc[p] = "l18"
    /\ \E ok \in BOOLEAN :
         frame' = [frame EXCEPT
             ![p].raised = IF ok THEN @ ELSE "SerializationError",
             ![p].result = IF ok THEN JsonResponse(frame[p].t, frame[p].ctx, frame[p].html)
                           ELSE Propagate("SerializationError")]
    /\ pc' = [pc EXCEPT ![p] = "done"]
    /\ UNCHANGED <<maps, overlapped, leaked>>

\* line 21: data['kestrel'] = 'html'
SetMarker(p) ==
    /\ pc[p] = "l21"
    /\ maps' = [maps EXCEPT ![frame[p].data] = SetKestrel(@)]
    /\ pc' = [pc EXCEPT ![p] = "l22"]
    /\ UNCHANGED <<frame, overlapped, leaked>>

\* render_to_response: look the template up, render it against data,
\* wrap the output in a response
RenderToResponse(p, line, outs) ==
    /\ pc[p] = line
    /\ LET name == TemplateName(frame[p].page)
           ctx == maps[frame[p].data]
       IN  \/ /\ frame' = [frame EXCEPT ![p].lookups = Append(@, name),
                                        ![p].raised = "TemplateDoesNotExist",
                                        ![p].result = Propagate("TemplateDoesNotExist")]
              /\ UNCHANGED leaked
           \/ /\ frame' = [frame EXCEPT ![p].lookups = Append(@, name),
                                        ![p].t = name, ![p].ctx = ctx,
                                        ![p].renders = @ + 1,
                                        ![p].raised = "RenderError",
                                        ![p].result = Propagate("RenderError")]
              /\ leaked' = (leaked \/ (line = "l25" /\ HasKey(ctx)))
           \/ \E out \in outs :
                /\ frame' = [frame EXCEPT ![p].lookups = Append(@, name),
                                          ![p].t = name, ![p].ctx = ctx,
                                          ![p].html = out, ![p].renders = @ + 1,
                                          ![p].result = TemplatedResponse(name, ctx, out)]
                /\ leaked' = (leaked \/ (line = "l25" /\ HasKey(ctx)))
    /\ pc' = [pc EXCEPT ![p] = "done"]
    /\ UNCHANGED <<maps, overlapped>>

\* line 22: return render_to_response(page + '.html', data, ...)  (format == 'html')
KestrelRespond(p, outs) == RenderToResponse(p, "l22", outs)

\* line 25: return render_to_response(page + '.html', data, ...)  (else)
BaseRespond(p, outs) == RenderToResponse(p, "l25", outs)

\* the caller takes the response or the exception; the call's frame is gone
Return(p) ==
    /\ pc[p] = "done"
    /\ pc' = [pc EXCEPT ![p] = "idle"]
    /\ frame' = [frame EXCEPT ![p] = IdleFrame]
    /\ overlapped' = [overlapped EXCEPT ![p] = FALSE]
    /\ UNCHANGED <<maps, leaked>>

(* ---------------------------- specifications -------------------------- *)

\* calls run one at a time
Next ==
    \/ \E d \in CallerMaps, m \in Mappings : Populate(d, m)
    \/ \E p \in Procs :
         \/ \E f \in Formats, pg \in PageArgs, d \in DataArgs : SeqCall(p, f, pg, d)
         \/ TestKey(p)
         \/ DelKey(p)
         \/ GetTemplate(p)
         \/ Render(p, HtmlOut)
         \/ JsonRespond(p)
         \/ SetMarker(p)
         \/ KestrelRespond(p, HtmlOut)
         \/ BaseRespond(p, HtmlOut)
         \/ Return(p)

Spec == Init /\ [][Next]_vars

\* calls interleave at statement granularity; what plays no part in the
\* interleaving is held fixed: the page, the rendered string, the keys
\* other than 'kestrel', and a second format that takes the else branch
ConcFormats == {"json", "html", PyNone}
ConcMappings == {m \in Mappings : DOMAIN m \subseteq {Kestrel}}

NextConc ==
    \/ \E d \in CallerMaps, m \in ConcMappings : Populate(d, m)
    \/ \E p \in Procs :
         \/ \E f \in ConcFormats, d \in DataArgs : Call(p, f, Omitted, d)
         \/ TestKey(p)
         \/ DelKey(p)
         \/ GetTemplate(p)
         \/ Render(p, {<<>>})
         \/ JsonRespond(p)
         \/ SetMarker(p)
         \/ KestrelRespond(p, {<<>>})
         \/ BaseRespond(p, {<<>>})
         \/ Return(p)

SpecConc == Init /\ [][NextConc]_vars

(* ------------------------- reading a JSON body ------------------------ *)

ParseFail == [ok |-> FALSE, val |-> <<>>, next |-> 0]

\* the characters of a JSON string from position i (after the opening
\* quote) to its closing quote, escapes decoded
RECURSIVE ScanString(_, _, _)
ScanString(s, i, acc) ==
    IF i > Len(s) THEN ParseFail
    ELSE IF s[i] = "\"" THEN [ok |-> TRUE, val |-> acc, next |-> i + 1]
    ELSE IF s[i] = "\\"
         THEN IF i + 1 > Len(s) THEN ParseFail
              ELSE IF s[i + 1] \in {"\"", "\\"} THEN ScanString(s, i + 2, Append(acc, s[i + 1]))
              ELSE IF s[i + 1] = "n" THEN ScanString(s, i + 2, Append(acc, "\n"))
              ELSE ParseFail
    ELSE IF s[i] = "\n" THEN ParseFail
    ELSE ScanString(s, i + 1, Append(acc, s[i]))

ParseString(s, i) ==
    IF i <= Len(s) /\ s[i] = "\"" THEN ScanString(s, i + 1, <<>>) ELSE ParseFail

\* the members "key": "value" of a JSON object from position i to its end
RECURSIVE ParseMembers(_, _, _)
ParseMembers(s, i, acc) ==
    LET k == ParseString(s, i)
    IN  IF ~k.ok \/ k.next + 1 > Len(s) \/ s[k.next] # ":" \/ s[k.next + 1] # " "
        THEN ParseFail
        ELSE LET v == ParseString(s, k.next + 2)
                 got == Append(acc, <<k.val, v.val>>)
             IN  IF ~v.ok \/ v.next > Len(s) THEN ParseFail
                 ELSE IF s[v.next] = "}"
                      THEN IF v.next = Len(s)
                           THEN [ok |-> TRUE, val |-> got, next |-> v.next + 1]
                           ELSE ParseFail
                 ELSE IF s[v.next] = "," /\ v.next + 1 <= Len(s) /\ s[v.next + 1] = " "
                      THEN ParseMembers(s, v.next + 2, got)
                 ELSE ParseFail

\* the members of the JSON object a body holds, in order
Loads(s) ==
    IF Len(s) < 2 \/ s[1] # "{" THEN ParseFail
    ELSE IF s[2] = "}" THEN (IF Len(s) = 2 THEN [ok |-> TRUE, val |-> <<>>, next |-> 3]
                             ELSE ParseFail)
    ELSE ParseMembers(s, 2, <<>>)

(* ------------------------------ properties ---------------------------- *)

\* a mapping without one key
Without(m, key) == [k \in DOMAIN m \ {key} |-> m[k]]
\* a mapping with one key set
With(m, key, v) == [k \in DOMAIN m \cup {key} |-> IF k = key THEN v ELSE m[k]]

Rendered(p) == frame[p].renders > 0
Done(p) == pc[p] = "done"
Responded(p) == Done(p) /\ frame[p].result.kind = "response"

\* C1: when calls run one at a time, a call with format != 'html' never
\* hands the renderer a context that contains 'kestrel', whatever the
\* mapping held when the call began.
C1_NoMarkerUnlessHtml ==
    \A p \in Procs :
        (Rendered(p) /\ frame[p].format # "html") => "kestrel" \notin DOMAIN frame[p].ctx

\* a json call rendered a mapping that came in with the marker 'html'
C1_Witness ==
    \E p \in Procs :
        /\ Rendered(p) /\ frame[p].format = "json" /\ frame[p].dataArg # Omitted
        /\ "kestrel" \in DOMAIN frame[p].pre /\ frame[p].pre["kestrel"] = "html"

\* C2: a call with format == 'html' hands the renderer a context in which
\* 'kestrel' is 'html', whether the key came in absent or with another value.
C2_MarkerOnHtml ==
    \A p \in Procs :
        (Rendered(p) /\ frame[p].format = "html") =>
            /\ "kestrel" \in DOMAIN frame[p].ctx
            /\ frame[p].ctx["kestrel"] = "html"

\* an html call rendered a mapping that came in with a stale marker
C2_Witness ==
    \E p \in Procs :
        /\ Rendered(p) /\ frame[p].format = "html"
        /\ "kestrel" \in DOMAIN frame[p].pre /\ frame[p].pre["kestrel"] = "stale"

\* C3: a json call that succeeds returns a response built by HttpResponse
\* with content type 'text/plain' whose body reads back as a JSON object
\* with the single member 'html', the string the renderer produced for
\* page + '.html' against the data without 'kestrel'.
C3_JsonResponse ==
    \A p \in Procs :
        (Responded(p) /\ frame[p].format = "json") =>
            LET r == frame[p].result
            IN  /\ r.mimetype = "text/plain"
                /\ r.builder = "HttpResponse"
                /\ Loads(r.body) = [ok |-> TRUE, val |-> <<<<HtmlKey, frame[p].html>>>>,
                                    next |-> Len(r.body) + 1]
                /\ frame[p].t = frame[p].page \o ".html"
                /\ frame[p].renders = 1
                /\ frame[p].ctx = Without(frame[p].pre, "kestrel")

\* a json call answered with rendered output that needs every escape
C3_Witness ==
    \E p \in Procs :
        /\ Responded(p) /\ frame[p].format = "json"
        /\ frame[p].html = <<"\\", "\"">>
        /\ "kestrel" \in DOMAIN frame[p].pre /\ "title" \in DOMAIN frame[p].pre

\* C4: a call whose format is None or anything but 'json' and 'html'
\* returns the direct templated response for page + '.html' with the data
\* without 'kestrel' as context: no marker, no JSON wrapping, no forced
\* 'text/plain'.
C4_BaseResponse ==
    \A p \in Procs :
        (Responded(p) /\ frame[p].format \notin {"json", "html"}) =>
            frame[p].result =
                [kind |-> "response", builder |-> "render_to_response",
                 template |-> frame[p].page \o ".html",
                 ctx |-> Without(frame[p].pre, "kestrel"),
                 body |-> frame[p].html, mimetype |-> FrameworkContentType, error |-> ""]

\* a call without format answered for a mapping that came in with a marker
C4_Witness ==
    \E p \in Procs :
        /\ Responded(p) /\ frame[p].format = PyNone
        /\ "kestrel" \in DOMAIN frame[p].pre /\ "title" \in DOMAIN frame[p].pre
        /\ frame[p].html # <<>>

\* C5: every template a call looks up is page + '.html' for the page the
\* caller passed, and 'page/home.html' when the caller passed none; a call
\* that got past its branch looked up exactly one.
C5_TemplateName ==
    \A p \in Procs :
        LET want == IF frame[p].pageArg = Omitted THEN "page/home.html"
                    ELSE frame[p].pageArg \o ".html"
        IN  /\ \A i \in 1..Len(frame[p].lookups) : frame[p].lookups[i] = want
            /\ Done(p) => Len(frame[p].lookups) = 1
            /\ Rendered(p) => frame[p].t = want

\* an html call that named no page looked up 'page/home.html'
C5_Witness ==
    \E p \in Procs :
        /\ Done(p) /\ frame[p].pageArg = Omitted
        /\ frame[p].lookups = <<"page/home.html">>
        /\ frame[p].format = "html"

\* C6: when calls run one at a time, a step of run changes nothing but
\* the 'kestrel' key of the mapping the call was given, and once the call
\* has ended, with a response or an error, that mapping is the one the
\* call began with, with 'kestrel' removed, and set to 'html' exactly when
\* format == 'html'.
C6_OnlyKestrelOfData ==
    [][\A p \in Procs :
          /\ pc'[p] # pc[p] =>
                \A d \in MapIds :
                    /\ d # frame[p].data => maps'[d] = maps[d]
                    /\ Without(maps'[d], "kestrel") = Without(maps[d], "kestrel")
          /\ (pc[p] # "done" /\ pc'[p] = "done") =>
                maps'[frame'[p].data] =
                    IF frame'[p].format = "html"
                    THEN With(frame'[p].pre, "kestrel", "html")
                    ELSE Without(frame'[p].pre, "kestrel")]_vars

\* an html call on a mapping with a stale marker and another key ended in
\* a renderer error
C6_Witness ==
    \E p \in Procs :
        /\ Done(p) /\ frame[p].format = "html" /\ frame[p].raised = "RenderError"
        /\ frame[p].pre = [k \in {"kestrel", "title"} |->
                              IF k = "kestrel" THEN "stale" ELSE "About"]

\* C7: a failure of the template lookup, the rendering or the JSON
\* serialisation ends the call at once with that error and no response;
\* the renderer runs at most once per call; a call in which nothing failed
\* ends with a response.
C7_ErrorsPropagate ==
    \A p \in Procs :
        /\ frame[p].renders <= 1
        /\ frame[p].raised # "" =>
              /\ Done(p)
              /\ frame[p].result =
                    [kind |-> "raise", builder |-> "", template |-> "", ctx |-> EmptyMap,
                     body |-> <<>>, mimetype |-> "", error |-> frame[p].raised]
        /\ (Done(p) /\ frame[p].raised = "") => frame[p].result.kind = "response"
        /\ ~Done(p) => frame[p].result.kind = "none"

\* a json call that ended in a serialisation error after one rendering
C7_Witness ==
    \E p \in Procs :
        /\ Done(p) /\ frame[p].raised = "SerializationError"
        /\ frame[p].renders = 1 /\ frame[p].result.kind = "raise"

\* C8: a call that omits the data argument begins with a mapping that
\* holds nothing an earlier call left behind.
C8_NoStateAcrossCalls ==
    \A p \in Procs :
        (pc[p] = "l11" /\ frame[p].dataArg = Omitted) => maps[frame[p].data] = EmptyMap

\* C9: a call that ran while no other call used its mapping neither fails
\* at the deletion nor, with format != 'html', renders 'kestrel'; calls
\* that interleave on one mapping reach both (the witness).
C9_SerialisedCallsSafe ==
    \A p \in Procs :
        ~overlapped[p] =>
            /\ frame[p].raised # "KeyError"
            /\ (Rendered(p) /\ frame[p].format # "html") =>
                   "kestrel" \notin DOMAIN frame[p].ctx

\* interleaved calls: one with format != 'html' has rendered 'kestrel',
\* and one has failed at the deletion
C9_Witness ==
    /\ leaked
    /\ \E p \in Procs : Done(p) /\ frame[p].raised = "KeyError" /\ overlapped[p]

\* C10: when calls run one at a time, a call that omits data renders
\* {'kestrel': 'html'} when format == 'html' and the empty mapping
\* otherwise, whatever the earlier calls were and however they ended.
C10_DefaultContextByFormat ==
    \A p \in Procs :
        (Rendered(p) /\ frame[p].dataArg = Omitted) =>
            frame[p].ctx = IF frame[p].format = "html"
                           THEN [k \in {"kestrel"} |-> "html"]
                           ELSE EmptyMap

\* a call without data and without format rendered after an earlier html
\* call had left its marker in the default mapping
C10_Witness ==
    \E p \in Procs :
        /\ Rendered(p) /\ frame[p].dataArg = Omitted /\ frame[p].format # "html"
        /\ frame[p].pre = [k \in {"kestrel"} |-> "html"]

====
